---- MODULE Spec2Model ----
(***************************************************************************)
(* A model of the posi rate limiters (src/src/rate_limiter.rs), the        *)
(* periodic Scheduler that drives the Token Bucket refill                  *)
(* (src/src/scheduler.rs) and the Log Store of the Sliding Window Log      *)
(* (src/src/log_storage.rs).                                               *)
(*                                                                         *)
(* usize is modelled as an unsigned integer of UsizeBits bits.  An         *)
(* arithmetic overflow wraps in a release build and panics in a debug      *)
(* build; a panic while a MutexGuard is alive poisons that Mutex, and      *)
(* every later lock().unwrap() on it panics.                               *)
(***************************************************************************)
EXTENDS Integers, Sequences, FiniteSets, TLC

\* ------------------------------------------------------------------ bounds
UsizeBits == 3
MaxPermitNum == 2
MaxDuration == 1
MaxCalls == 3
MaxStarts == 2
MaxStops == 1
MaxClock == 2
MaxFwCalls == 2
MaxSwCalls == 3
MaxTtl == 2
MaxCapacity == 3
MaxStoreCalls == 2

Modulus == 2 ^ UsizeBits
UsizeMax == Modulus - 1
Usize == 0 .. UsizeMax
\* Rate.permit_num and the permits argument of try_acquire are positive
\* usize values: the small ones, and the largest one.
PermitNums == (1 .. MaxPermitNum) \cup {UsizeMax}
Permits == (1 .. MaxPermitNum + 1) \cup {UsizeMax}
Durations == 1 .. MaxDuration
\* InMemoryLogStorage::new(size, duration): the store's own parameters
Ttls == 1 .. MaxTtl
Capacities == 1 .. MaxCapacity
Builds == {"debug", "release"}
Starters == {1, 2}

Min(a, b) == IF a <= b THEN a ELSE b

\* a + b on usize: the sum overflows iff it does not fit.
Overflows(a, b) == a + b > UsizeMax
WrappingAdd(a, b) == (a + b) % Modulus

VARIABLES
    kind,               \* RateLimiterType of the limiter under check
    build,              \* "debug": overflow checks on; "release": wrapping
    permit_num,         \* Rate.permit_num
    duration,           \* Rate.duration
    \* --- TokenBucketRateLimiter
    available_permits,  \* *permits
    permits_poisoned,   \* the permits Mutex is poisoned
    tb_ret,             \* the last try_acquire call: [p, res]
    tb_calls,           \* try_acquire calls made: [n, ok, rej, ones]; ok
                        \* and rej count the calls that returned true and
                        \* false while every call asked for 1 permit
    refilled,           \* a refill tick has run (the closure was called)
    refill_fresh,       \* a refill tick has run and no try_acquire since
    burst,              \* the calls admitted since the first start()
                        \* returned, while no time has passed:
                        \* [open, ok, sum]
    \* --- Scheduler
    is_running,         \* *is_running
    tasks,              \* the spawned background threads, in spawn order
    starters,           \* the threads inside Scheduler::start
    sched_hist,         \* [starts, stops, won, overlap]: calls made;
                        \* start()s that returned true since the last
                        \* stop(); a start() or stop() call was made while
                        \* another start() was in progress
    \* --- FixedWindowRateLimiter
    clock,              \* Instant::now()
    counter,            \* *counter
    window_start,       \* *window_start
    locks,              \* [counter, window_start]: the thread holding each
                        \* Mutex (0: free)
    poisoned,           \* [counter, window_start]: the Mutex is poisoned
    fw,                 \* the threads inside try_acquire: [pc, p, now, seen]
    fw_ret,             \* the last try_acquire to end: [p, res, wrote]
    fw_calls,           \* try_acquire calls begun
    expiry,             \* the last window expiry a call observed:
                        \* [ws, resets, admitted, erased]
    \* --- SlidingWindowLogRateLimiter and its InMemoryLogStorage
    capacity,           \* the cache's max_capacity
    ttl,                \* the cache's time_to_live
    cache,              \* the entries [id, at] in insertion order
    next_id,            \* entries inserted so far (the next token)
    sw_ret,             \* the last try_acquire: [p, res, before]
    sw_calls,           \* try_acquire calls made
    granted,            \* the permits try_acquire admitted, by time of call
    store_call,         \* the last direct store call: [calls, n, d, at,
                        \* empty]; calls counts them, empty: no entry was
                        \* live before it
    count_ret,          \* the last direct count call: [n, at, after]; n is
                        \* the result, after the store calls made before it
    \* --- the first two calls made on the limiter
    first_full,         \* the first call was try_acquire(permit_num), it
                        \* returned true, and no refill, reset, expiry or
                        \* other call has happened since
    follow              \* the outcome of a try_acquire(1) made then

tbVars == <<available_permits, permits_poisoned, tb_ret, tb_calls, refilled,
           refill_fresh, burst>>
schedVars == <<is_running, tasks, starters, sched_hist>>
rateVars == <<kind, build, permit_num, duration>>
fwVars == <<clock, counter, window_start, locks, poisoned, fw, fw_ret,
            fw_calls, expiry>>
swVars == <<capacity, ttl, cache, next_id, sw_ret, sw_calls, granted,
           store_call, count_ret>>
callVars == <<first_full, follow>>
vars == <<rateVars, tbVars, schedVars, fwVars, swVars, callVars>>

NoRet == [p |-> 0, res |-> "none"]
NoBurst == [open |-> FALSE, ok |-> 0, sum |-> 0]

\* ------------------------------------------------------ Token Bucket
\* Mutant: `<=` for `<`, so a request for all that is left is rejected.
TokenBucketAdmitsOffByOne(avail, p) == ~(avail <= p)

\* rate_limiter.rs:145  `if *available_permits < permits { false } else ...`
TokenBucketAdmits(avail, p) == ~(avail < p)

\* Mutant: a rejected call still takes what is left (a partial reservation).
TokenBucketPermitsAfterPartial(avail, p) ==
    IF avail >= p THEN avail - p ELSE 0

\* Mutant: the decrement is lost.
TokenBucketPermitsAfterLost(avail, p) == avail

\* rate_limiter.rs:145-150  *available_permits after the call: less the
\* permits when the call is admitted, untouched otherwise.
TokenBucketPermitsAfter(avail, p) ==
    IF TokenBucketAdmits(avail, p) THEN avail - p ELSE avail

\* Mutant: the refill is not capped at permit_num.
RefillValueNoCap(avail, pn) == WrappingAdd(avail, pn)

\* rate_limiter.rs:135  min(permit_num, *available_permits + permit_num),
\* the sum wrapped (release build).
RefillValue(avail, pn) == Min(pn, WrappingAdd(avail, pn))

\* TokenBucketRateLimiter::try_acquire: one critical section on `permits`.
TokenBucket_try_acquire(p) ==
    /\ kind = "TokenBucket"
    /\ tb_calls.n < MaxCalls
    /\ LET res == IF permits_poisoned THEN "panic"
                  ELSE IF TokenBucketAdmits(available_permits, p) THEN "true"
                  ELSE "false"
           ones == tb_calls.ones /\ p = 1
       IN /\ available_permits' =
                IF permits_poisoned THEN available_permits
                ELSE TokenBucketPermitsAfter(available_permits, p)
          /\ tb_ret' = [p |-> p, res |-> res]
          /\ tb_calls' = [n |-> tb_calls.n + 1,
                          ok |-> IF ~ones THEN 0
                                 ELSE tb_calls.ok + (IF res = "true" THEN 1 ELSE 0),
                          rej |-> IF ~ones THEN 0
                                  ELSE tb_calls.rej + (IF res = "false" THEN 1 ELSE 0),
                          ones |-> ones]
          /\ burst' = IF burst.open /\ res = "true"
                       THEN [burst EXCEPT !.ok = @ + 1, !.sum = @ + p]
                       ELSE burst
          /\ first_full' = (tb_calls.n = 0 /\ ~refilled /\ p = permit_num
                            /\ res = "true")
          /\ follow' = IF first_full /\ p = 1 THEN res ELSE follow
    /\ refill_fresh' = FALSE
    /\ UNCHANGED <<permits_poisoned, refilled, rateVars, schedVars, fwVars, swVars>>

\* ---------------------------------------------------------- Scheduler
NewTask == [pc |-> "check", sleep_left |-> 0]
LiveTasks == {i \in DOMAIN tasks : tasks[i].pc \notin {"done", "panicked"}}

\* The threads between the two lock acquisitions of Scheduler::start.
InProgress == {s \in Starters : starters[s] # "idle"}

\* scheduler.rs:21-23  read the flag under its lock; the guard is a temporary,
\* released at the end of the condition.
Scheduler_start_check(s) ==
    /\ kind = "TokenBucket"
    /\ starters[s] = "idle"
    /\ sched_hist.starts < MaxStarts
    /\ starters' = IF is_running THEN starters
                    ELSE [starters EXCEPT ![s] = "clean"]
    /\ sched_hist' = [sched_hist EXCEPT
                        !.starts = @ + 1,
                        !.overlap = @ \/ InProgress # {}]
    /\ UNCHANGED <<is_running, tasks, rateVars, tbVars, fwVars, swVars, callVars>>

\* scheduler.rs:25-39  a second lock sets the flag; the thread is spawned and
\* start returns true.
Scheduler_start_spawn(s) ==
    /\ starters[s] \in {"clean", "stale"}
    /\ is_running' = TRUE
    /\ tasks' = Append(tasks, NewTask)
    /\ starters' = [starters EXCEPT ![s] = "idle"]
    /\ sched_hist' = [sched_hist EXCEPT
                        !.won = IF starters[s] = "clean" THEN @ + 1 ELSE @]
    /\ burst' = IF Len(tasks) = 0 THEN [NoBurst EXCEPT !.open = TRUE] ELSE burst
    /\ UNCHANGED <<available_permits, permits_poisoned, tb_ret, tb_calls,
                   refilled, refill_fresh, rateVars, fwVars, swVars, callVars>>

\* scheduler.rs:42-45
Scheduler_stop ==
    /\ sched_hist.stops < MaxStops
    /\ is_running' = FALSE
    /\ starters' = [s \in Starters |->
                      IF starters[s] = "clean" THEN "stale" ELSE starters[s]]
    /\ sched_hist' = [sched_hist EXCEPT !.stops = @ + 1, !.won = 0,
                                        !.overlap = @ \/ InProgress # {}]
    /\ UNCHANGED <<tasks, rateVars, tbVars, fwVars, swVars, callVars>>

\* Mutant: the loop never looks at the flag.
LoopContinuesForever(running) == TRUE

\* scheduler.rs:29  `while *running.lock().unwrap()`
LoopContinues(running) == running

Task_check(i) ==
    /\ tasks[i].pc = "check"
    /\ tasks' = [tasks EXCEPT
                   ![i].pc = IF LoopContinues(is_running) THEN "action" ELSE "done"]
    /\ UNCHANGED <<is_running, starters, sched_hist, rateVars, tbVars, fwVars, swVars, callVars>>

\* scheduler.rs:30-33 with the closure of rate_limiter.rs:133-136: the refill,
\* then the sleep for the rest of the interval.
Task_action(i) ==
    /\ tasks[i].pc = "action"
    /\ IF permits_poisoned
       THEN \* lock().unwrap() panics: the thread dies
            /\ tasks' = [tasks EXCEPT ![i].pc = "panicked"]
            /\ UNCHANGED <<available_permits, permits_poisoned, refilled,
                           refill_fresh>>
       ELSE IF build = "debug" /\ Overflows(available_permits, permit_num)
       THEN \* overflow panic with the guard alive: the Mutex is poisoned
            /\ tasks' = [tasks EXCEPT ![i].pc = "panicked"]
            /\ permits_poisoned' = TRUE
            /\ refilled' = TRUE
            /\ refill_fresh' = TRUE
            /\ UNCHANGED available_permits
       ELSE /\ available_permits' = RefillValue(available_permits, permit_num)
            /\ refilled' = TRUE
            /\ refill_fresh' = TRUE
            /\ tasks' = [tasks EXCEPT ![i] = [pc |-> "sleep", sleep_left |-> duration]]
            /\ UNCHANGED permits_poisoned
    /\ first_full' = FALSE
    /\ UNCHANGED <<tb_ret, tb_calls, burst, is_running, starters, sched_hist,
                   follow, rateVars, fwVars, swVars>>

\* thread::sleep returns
Task_wake(i) ==
    /\ tasks[i].pc = "sleep"
    /\ tasks[i].sleep_left = 0
    /\ tasks' = [tasks EXCEPT ![i].pc = "check"]
    /\ UNCHANGED <<is_running, starters, sched_hist, rateVars, tbVars, fwVars, swVars, callVars>>

\* one unit of time passes
Tick ==
    /\ \E i \in DOMAIN tasks : tasks[i].pc = "sleep" /\ tasks[i].sleep_left > 0
    /\ tasks' = [i \in DOMAIN tasks |->
                   IF tasks[i].pc = "sleep" /\ tasks[i].sleep_left > 0
                   THEN [tasks[i] EXCEPT !.sleep_left = @ - 1]
                   ELSE tasks[i]]
    /\ burst' = NoBurst
    /\ UNCHANGED <<available_permits, permits_poisoned, tb_ret, tb_calls,
                   refilled, refill_fresh, is_running, starters, sched_hist,
                   rateVars, fwVars, swVars, callVars>>

\* ------------------------------------------------------ Fixed Window
Threads == {1, 2}
FwIdle == [pc |-> "idle", p |-> 0, now |-> 0, seen |-> -1]
NoFwRet == [p |-> 0, res |-> "none", wrote |-> FALSE]
NoExpiry == [ws |-> -1, resets |-> 0, admitted |-> 0, erased |-> FALSE]

\* Instant::duration_since saturates at zero.
DurationSince(later, earlier) == IF later >= earlier THEN later - earlier ELSE 0

\* rate_limiter.rs:98  `now.duration_since(*window_start) > duration`
WindowElapsed(now, ws, d) == DurationSince(now, ws) > d

\* rate_limiter.rs:105  `*cur_counter + permits > permit_num`, the sum wrapped
\* (release build).
FixedWindowRejects(c, p, pn) == WrappingAdd(c, p) > pn

\* rate_limiter.rs:109  `*cur_counter += permits`
FixedWindowAdd(c, p) == WrappingAdd(c, p)

\* rate_limiter.rs:88  `*counter = 0`
ResetCounter == 0

\* A call ends: the thread is idle again and its outcome is recorded.
FwReturn(t, res) ==
    /\ fw' = [fw EXCEPT ![t] = FwIdle]
    /\ fw_ret' = [p |-> fw[t].p, res |-> res,
                  wrote |-> fw[t].pc = "evaluate" /\ fw[t].seen >= 0]
    /\ first_full' = (fw_calls = 1 /\ fw[t].p = permit_num /\ res = "true")
    /\ follow' = IF first_full /\ fw[t].p = 1 THEN res ELSE follow

\* rate_limiter.rs:95  try_acquire is entered: `let now = Instant::now()`
FixedWindow_try_acquire(t, p) ==
    /\ kind = "FixedWindow"
    /\ fw[t].pc = "idle"
    /\ fw_calls < MaxFwCalls
    /\ fw_calls' = fw_calls + 1
    /\ fw' = [fw EXCEPT ![t] = [pc |-> "check", p |-> p, now |-> clock, seen |-> -1]]
    /\ UNCHANGED <<clock, counter, window_start, locks, poisoned, fw_ret, expiry,
                   rateVars, tbVars, schedVars, swVars, callVars>>

\* rate_limiter.rs:96-101  window_start is locked and compared with now; the
\* guard is dropped when the window has elapsed and kept otherwise.
FixedWindow_check(t) ==
    /\ fw[t].pc = "check"
    /\ locks.window_start = 0
    /\ IF poisoned.window_start
       THEN /\ FwReturn(t, "panic")
            /\ UNCHANGED <<locks, expiry>>
       ELSE IF WindowElapsed(fw[t].now, window_start, duration)
       THEN /\ fw' = [fw EXCEPT ![t].pc = "reset", ![t].seen = window_start]
            /\ expiry' = IF expiry.ws = window_start THEN expiry
                         ELSE [NoExpiry EXCEPT !.ws = window_start]
            /\ UNCHANGED <<locks, fw_ret, callVars>>
       ELSE /\ fw' = [fw EXCEPT ![t].pc = "evaluate"]
            /\ locks' = [locks EXCEPT !.window_start = t]
            /\ UNCHANGED <<fw_ret, expiry, callVars>>
    /\ UNCHANGED <<clock, counter, window_start, poisoned, fw_calls,
                   rateVars, tbVars, schedVars, swVars>>

\* rate_limiter.rs:86  reset_window locks counter
FixedWindow_reset_lock(t) ==
    /\ fw[t].pc = "reset"
    /\ locks.counter = 0
    /\ IF poisoned.counter
       THEN /\ FwReturn(t, "panic")
            /\ UNCHANGED locks
       ELSE /\ fw' = [fw EXCEPT ![t].pc = "reset_window"]
            /\ locks' = [locks EXCEPT !.counter = t]
            /\ UNCHANGED <<fw_ret, callVars>>
    /\ UNCHANGED <<clock, counter, window_start, poisoned, fw_calls, expiry,
                   rateVars, tbVars, schedVars, swVars>>

\* rate_limiter.rs:87-90  reset_window locks window_start, resets and returns
reset_window(t) ==
    /\ fw[t].pc = "reset_window"
    /\ locks.window_start = 0
    /\ locks' = [locks EXCEPT !.counter = 0]
    /\ IF poisoned.window_start
       THEN \* the panic drops the counter guard: counter is poisoned too
            /\ FwReturn(t, "panic")
            /\ poisoned' = [poisoned EXCEPT !.counter = TRUE]
            /\ UNCHANGED <<counter, window_start, expiry>>
       ELSE /\ counter' = ResetCounter
            /\ window_start' = clock
            /\ fw' = [fw EXCEPT ![t].pc = "evaluate"]
            /\ expiry' = IF fw[t].seen # expiry.ws THEN expiry
                         ELSE [expiry EXCEPT
                                 !.resets = Min(2, @ + 1),
                                 !.erased = @ \/ expiry.admitted > 0]
            /\ first_full' = FALSE
            /\ UNCHANGED <<poisoned, fw_ret, follow>>
    /\ UNCHANGED <<clock, fw_calls, rateVars, tbVars, schedVars, swVars>>

\* rate_limiter.rs:103-110  counter is locked, the request evaluated, and
\* every guard the call holds is dropped.
FixedWindow_evaluate(t) ==
    /\ fw[t].pc = "evaluate"
    /\ locks.counter = 0
    /\ locks' = [locks EXCEPT !.window_start = IF @ = t THEN 0 ELSE @]
    /\ IF poisoned.counter \/ (build = "debug" /\ Overflows(counter, fw[t].p))
       THEN \* lock().unwrap() or the addition panics with the guards alive
            /\ FwReturn(t, "panic")
            /\ poisoned' = [counter |-> TRUE,
                            window_start |-> poisoned.window_start
                                             \/ locks.window_start = t]
            /\ UNCHANGED <<counter, expiry>>
       ELSE IF FixedWindowRejects(counter, fw[t].p, permit_num)
       THEN /\ FwReturn(t, "false")
            /\ UNCHANGED <<counter, poisoned, expiry>>
       ELSE /\ FwReturn(t, "true")
            /\ counter' = FixedWindowAdd(counter, fw[t].p)
            /\ expiry' = IF fw[t].seen # expiry.ws \/ fw[t].seen < 0 THEN expiry
                         ELSE [expiry EXCEPT !.admitted = @ + fw[t].p]
            /\ UNCHANGED poisoned
    /\ UNCHANGED <<clock, window_start, fw_calls, rateVars, tbVars, schedVars, swVars>>

\* FixedWindowRateLimiter::new (rate_limiter.rs:77-83)
InitFW ==
    /\ clock = 0
    /\ counter = 0
    /\ window_start = 0
    /\ locks = [counter |-> 0, window_start |-> 0]
    /\ poisoned = [counter |-> FALSE, window_start |-> FALSE]
    /\ fw = [t \in Threads |-> FwIdle]
    /\ fw_ret = NoFwRet
    /\ fw_calls = 0
    /\ expiry = NoExpiry

NextFW ==
    \/ \E t \in Threads, p \in Permits : FixedWindow_try_acquire(t, p)
    \/ \E t \in Threads : FixedWindow_check(t)
    \/ \E t \in Threads : FixedWindow_reset_lock(t)
    \/ \E t \in Threads : reset_window(t)
    \/ \E t \in Threads : FixedWindow_evaluate(t)

\* ------------------------------------ Sliding Window Log and Log Store
\* An entry stops being counted time_to_live after its insertion.
Expired(e, now) == now - e.at >= ttl

Live(c, now) == SelectSeq(c, LAMBDA e : ~Expired(e, now))

\* Mutant: a full cache turns the new entry away and keeps the old ones.
CacheInsertRejectsNew(c, id, now) ==
    IF Len(Live(c, now)) >= capacity THEN Live(c, now)
    ELSE Append(Live(c, now), [id |-> id, at |-> now])

\* Cache::insert: the entry is added; over max_capacity the entry inserted
\* first is evicted.
CacheInsert(c, id, now) ==
    LET added == Append(Live(c, now), [id |-> id, at |-> now])
    IN IF Len(added) > capacity THEN Tail(added) ELSE added

\* Mutant: the loop runs over 1..attempts, one insert short.
RECURSIVE storeOneShort(_, _, _, _)
storeOneShort(c, id, attempts, now) ==
    IF attempts <= 1 THEN c
    ELSE storeOneShort(CacheInsert(c, id, now), id + 1, attempts - 1, now)

\* log_storage.rs:27-31  store: `attempts` inserts of a fresh token; the
\* duration argument is not used.
RECURSIVE store(_, _, _, _)
store(c, id, attempts, now) ==
    IF attempts = 0 THEN c
    ELSE store(CacheInsert(c, id, now), id + 1, attempts - 1, now)

\* log_storage.rs:33-35  count
count(c, now) == Len(Live(c, now))

\* Mutant: `<` for `<=`.
SlidingWindowLogAdmitsStrict(n, pn) == n < pn

\* Mutant: one entry too many is admitted.
SlidingWindowLogAdmitsOneMore(n, pn) == n <= pn + 1

\* rate_limiter.rs:68  `count <= self.rate.permit_num`
SlidingWindowLogAdmits(n, pn) == n <= pn

\* SlidingWindowLogRateLimiter::try_acquire (rate_limiter.rs:64-69): one
\* critical section on log_storage.
SlidingWindowLog_try_acquire(p) ==
    /\ kind = "SlidingWindowLog"
    /\ sw_calls < MaxSwCalls
    /\ sw_calls' = sw_calls + 1
    /\ cache' = store(cache, next_id, p, clock)
    /\ next_id' = next_id + p
    /\ sw_ret' = [p |-> p,
                  res |-> IF SlidingWindowLogAdmits(count(cache', clock), permit_num)
                          THEN "true" ELSE "false",
                  before |-> cache]
    /\ granted' = IF sw_ret'.res = "true"
                   THEN [granted EXCEPT ![clock] = @ + p] ELSE granted
    /\ first_full' = (sw_calls = 0 /\ p = permit_num /\ sw_ret'.res = "true")
    /\ follow' = IF first_full /\ p = 1 THEN sw_ret'.res ELSE follow
    /\ UNCHANGED <<capacity, ttl, store_call, count_ret, clock, counter,
                   window_start, locks, poisoned, fw, fw_ret, fw_calls, expiry,
                   rateVars, tbVars, schedVars>>

\* LogStorage::store (log_storage.rs:27-31) called on the store directly
LogStorage_store(n, d) ==
    /\ store_call.calls < MaxStoreCalls
    /\ cache' = store(cache, next_id, n, clock)
    /\ next_id' = next_id + n
    /\ store_call' = [calls |-> store_call.calls + 1, n |-> n, d |-> d,
                      at |-> clock, empty |-> count(cache, clock) = 0]
    /\ UNCHANGED <<capacity, ttl, sw_ret, sw_calls, granted, count_ret, clock,
                   counter, window_start, locks, poisoned, fw, fw_ret, fw_calls,
                   expiry, rateVars, tbVars, schedVars, callVars>>

\* LogStorage::count (log_storage.rs:33-35) called on the store directly
LogStorage_count ==
    /\ count_ret' = [n |-> count(cache, clock), at |-> clock,
                     after |-> store_call.calls]
    /\ UNCHANGED <<capacity, ttl, cache, next_id, sw_ret, sw_calls, granted,
                   store_call, clock, counter, window_start, locks, poisoned,
                   fw, fw_ret, fw_calls, expiry, rateVars, tbVars, schedVars,
                   callVars>>

\* one unit of time passes (Fixed Window, Sliding Window Log)
Tick_clock ==
    /\ kind \in {"FixedWindow", "SlidingWindowLog"}
    /\ clock < MaxClock
    /\ clock' = clock + 1
    /\ first_full' = (first_full /\ count(cache, clock') = count(cache, clock))
    /\ UNCHANGED <<counter, window_start, locks, poisoned, fw, fw_ret, fw_calls,
                   expiry, follow, rateVars, tbVars, schedVars, swVars>>

\* InMemoryLogStorage::new (log_storage.rs:16-23) with the capacity the
\* limiter is built with, permit_num + 1 (rate_limiter.rs:240, 256), and
\* SlidingWindowLogRateLimiter::new (rate_limiter.rs:55-60)
NoStoreCall == [calls |-> 0, n |-> 0, d |-> 0, at |-> 0, empty |-> TRUE]
NoCountRet == [n |-> 0, at |-> 0, after |-> 0]

\* The store, empty, and no call made
InitLog ==
    /\ cache = <<>>
    /\ next_id = 0
    /\ sw_ret = [p |-> 0, res |-> "none", before |-> <<>>]
    /\ sw_calls = 0
    /\ granted = [t \in 0 .. MaxClock |-> 0]
    /\ store_call = NoStoreCall
    /\ count_ret = NoCountRet

InitSW ==
    /\ capacity = IF kind = "SlidingWindowLog" THEN permit_num + 1 ELSE 0
    /\ ttl \in IF kind = "SlidingWindowLog" THEN Ttls ELSE {0}
    /\ InitLog

InitCalls ==
    /\ first_full = FALSE
    /\ follow = "none"

InitRate ==
    /\ build \in Builds
    /\ permit_num \in PermitNums
    /\ duration \in Durations

\* TokenBucketRateLimiter::new (rate_limiter.rs:119-128), Scheduler::new
\* (scheduler.rs:11-16)
InitTB ==
    /\ available_permits = permit_num
    /\ permits_poisoned = FALSE
    /\ tb_ret = NoRet
    /\ tb_calls = [n |-> 0, ok |-> 0, rej |-> 0, ones |-> TRUE]
    /\ refilled = FALSE
    /\ refill_fresh = FALSE
    /\ burst = NoBurst
    /\ is_running = FALSE
    /\ tasks = <<>>
    /\ starters = [s \in Starters |-> "idle"]
    /\ sched_hist = [starts |-> 0, stops |-> 0, won |-> 0, overlap |-> FALSE]

\* The Token Bucket: callers of try_acquire and of start (the limiter has no
\* stop), and the refill threads.
NextTB ==
    \/ \E p \in Permits : TokenBucket_try_acquire(p)
    \/ \E s \in Starters : Scheduler_start_check(s)
    \/ \E s \in Starters : Scheduler_start_spawn(s)
    \/ \E i \in DOMAIN tasks : Task_check(i)
    \/ \E i \in DOMAIN tasks : Task_action(i)
    \/ \E i \in DOMAIN tasks : Task_wake(i)
    \/ Tick

\* RateLimiterFactory::get (rate_limiter.rs:32-34) hands out the limiter of
\* one kind.
RateLimiterType == {"TokenBucket", "FixedWindow", "SlidingWindowLog"}

Init ==
    /\ kind \in RateLimiterType
    /\ InitRate
    /\ kind = "SlidingWindowLog" => permit_num < UsizeMax
    /\ InitTB
    /\ InitFW
    /\ InitSW
    /\ InitCalls

NextSW == \E p \in Permits : SlidingWindowLog_try_acquire(p)

Next == NextTB \/ NextFW \/ NextSW \/ Tick_clock

Spec == Init /\ [][Next]_vars

\* The Log Store on its own: InMemoryLogStorage::new(size, duration)
\* (log_storage.rs:16-23) with any capacity and time to live, and callers of
\* store and count.  The store uses neither the build nor permit_num.
InitStore ==
    /\ kind = "SlidingWindowLog"
    /\ build = "release"
    /\ permit_num = 1
    /\ duration \in Durations
    /\ InitTB
    /\ InitFW
    /\ InitCalls
    /\ capacity \in Capacities
    /\ ttl \in Ttls
    /\ InitLog

NextStore ==
    \/ \E n \in Permits, d \in Durations : LogStorage_store(n, d)
    \/ LogStorage_count
    \/ Tick_clock

SpecStore == InitStore /\ [][NextStore]_vars

\* The Scheduler of a Token Bucket: callers of start and of stop, and the
\* threads it spawned.
NextSched ==
    \/ \E s \in Starters : Scheduler_start_check(s)
    \/ \E s \in Starters : Scheduler_start_spawn(s)
    \/ Scheduler_stop
    \/ \E i \in DOMAIN tasks : Task_check(i)
    \/ \E i \in DOMAIN tasks : Task_action(i)
    \/ \E i \in DOMAIN tasks : Task_wake(i)
    \/ Tick

\* Every spawned thread is scheduled, and time passes.
FairSched ==
    /\ WF_vars(\E i \in DOMAIN tasks : Task_check(i) \/ Task_action(i) \/ Task_wake(i))
    /\ WF_vars(Tick)

InitSched == Init /\ kind = "TokenBucket"

SpecSched == InitSched /\ [][NextSched]_vars /\ FairSched


\* ================================================================ claims

\* C1: Token Bucket: in every reachable state, under any interleaving of
\* try_acquire calls and refill ticks, 0 <= available_permits <= permit_num.
C1_PermitsInRange ==
    kind = "TokenBucket" =>
        /\ available_permits \in Nat
        /\ 0 <= available_permits
        /\ available_permits <= permit_num

\* A refill tick has run after an admitted call, and permits are taken again.
C1_Witness ==
    /\ kind = "TokenBucket"
    /\ refilled
    /\ tb_calls.n >= 2
    /\ tb_ret.res = "true"
    /\ available_permits < permit_num

\* C2: Token Bucket: k calls of try_acquire(1) on a bucket of permit_num = m
\* permits with no refill tick: after n of them, min(n, m) have returned true
\* and the others false, and m - min(n, m) permits are left; so with k > m
\* exactly m return true, k - m return false, and available_permits ends 0.
C2_ExactlyMSucceed ==
    (kind = "TokenBucket" /\ tb_calls.ones /\ ~refilled) =>
        /\ tb_calls.ok = Min(tb_calls.n, permit_num)
        /\ tb_calls.rej = tb_calls.n - tb_calls.ok
        /\ available_permits = permit_num - tb_calls.ok
        /\ tb_calls.n > permit_num =>
             /\ tb_calls.ok = permit_num
             /\ tb_calls.rej = tb_calls.n - permit_num
             /\ available_permits = 0

\* More calls of try_acquire(1) than permits, and no refill tick.
C2_Witness ==
    /\ kind = "TokenBucket"
    /\ tb_calls.ones
    /\ ~refilled
    /\ tb_calls.n > permit_num
    /\ tb_calls.rej > 0

\* C3: Token Bucket try_acquire(p) returns true iff available_permits >= p
\* at the call; on true available_permits decreases by exactly p, on false it
\* is unchanged.  (A call on a poisoned lock panics and returns nothing.)
C3_AcquireContract ==
    [][tb_calls'.n # tb_calls.n =>
         /\ tb_ret'.res = "panic" <=> permits_poisoned
         /\ tb_ret'.res = "true" <=> (~permits_poisoned /\ available_permits >= tb_ret'.p)
         /\ tb_ret'.res = "true" => available_permits' = available_permits - tb_ret'.p
         /\ tb_ret'.res # "true" => available_permits' = available_permits]_vars

\* A call was rejected for permits the quota covers but the bucket lacks.
C3_Witness ==
    /\ kind = "TokenBucket"
    /\ tb_ret.res = "false"
    /\ tb_ret.p <= permit_num
    /\ available_permits > 0

\* C4: for each of the three algorithms, in every reachable state, a call
\* try_acquire(p) with p > permit_num that returns, returns false.
C4_OverQuotaRejected ==
    /\ (kind = "TokenBucket" /\ tb_ret.res \in {"true", "false"}
            /\ tb_ret.p > permit_num) => tb_ret.res = "false"
    /\ (kind = "FixedWindow" /\ fw_ret.res \in {"true", "false"}
            /\ fw_ret.p > permit_num) => fw_ret.res = "false"
    /\ (kind = "SlidingWindowLog" /\ sw_ret.res \in {"true", "false"}
            /\ sw_ret.p > permit_num) => sw_ret.res = "false"

\* C5: a freshly constructed limiter of any of the three algorithms returns
\* true for a first try_acquire(permit_num), and false for a try_acquire(1)
\* that follows it with no refill, reset or expiry in between.
C5_FreshAdmitsQuotaThenRejects ==
    /\ (kind = "TokenBucket" /\ tb_calls.n = 1 /\ ~refilled
            /\ tb_ret.p = permit_num) => tb_ret.res = "true"
    /\ (kind = "FixedWindow" /\ fw_calls = 1 /\ fw_ret.res # "none"
            /\ fw_ret.p = permit_num) => fw_ret.res = "true"
    /\ (kind = "SlidingWindowLog" /\ sw_calls = 1
            /\ sw_ret.p = permit_num) => sw_ret.res = "true"
    /\ follow \in {"none", "false"}

\* The step in which thread t's Fixed Window call evaluates and returns.
FwEvaluates(t) == fw[t].pc = "evaluate" /\ fw'[t].pc = "idle"

\* C6: Fixed Window: counter <= permit_num in every reachable state; a call
\* that returns, returns true iff counter + p <= permit_num and then adds p
\* to counter; and the first call made after more than duration has elapsed
\* resets counter to 0 and window_start to now before it evaluates, so that,
\* with no other call in flight, try_acquire(permit_num) then succeeds.
C6_FixedWindowContract ==
    /\ [](kind = "FixedWindow" => counter <= permit_num)
    /\ [][\A t \in Threads :
            (FwEvaluates(t) /\ fw_ret'.res \in {"true", "false"}) =>
                /\ fw_ret'.res = "true" <=> counter + fw[t].p <= permit_num
                /\ fw_ret'.res = "true" => counter' = counter + fw[t].p]_vars
    /\ [][\A t \in Threads :
            (fw[t].pc = "reset_window" /\ fw'[t].pc = "evaluate") =>
                counter' = 0 /\ window_start' = clock]_vars
    /\ [][\A t \in Threads :
            (FwEvaluates(t) /\ fw[t].seen >= 0 /\ fw[t].p = permit_num
                /\ fw_ret'.res \in {"true", "false"}
                /\ \A u \in Threads \ {t} : fw[u].pc = "idle") =>
                fw_ret'.res = "true"]_vars

\* C7: Fixed Window: of the concurrent calls that observe one elapsed window,
\* only one resets the counter, no reset erases permits one of them was
\* admitted, and together they are admitted no more than permit_num permits.
C7_OneResetPerExpiry ==
    kind = "FixedWindow" =>
        /\ expiry.resets <= 1
        /\ ~expiry.erased
        /\ expiry.admitted <= permit_num

\* C8 as stated: for every algorithm a try_acquire call that returns false
\* leaves the limiter's state as it was: available_permits, counter and
\* window_start, the store's contents.
C8_RejectionChangesNothing ==
    /\ [][(tb_calls'.n # tb_calls.n /\ tb_ret'.res = "false") =>
            available_permits' = available_permits]_vars
    /\ [](kind = "FixedWindow" /\ fw_ret.res = "false" => ~fw_ret.wrote)
    /\ [](kind = "SlidingWindowLog" /\ sw_ret.res = "false" =>
            cache = sw_ret.before)

\* C8 as amended: a try_acquire call that returns false leaves Token Bucket
\* available_permits unchanged; it leaves Fixed Window counter and
\* window_start unchanged unless it observed an elapsed window, and then its
\* only change is the reset (counter = 0, window_start = now); a rejected
\* Sliding Window Log call has recorded its entries, so the store differs.
C8_RejectionAmended ==
    /\ [][(tb_calls'.n # tb_calls.n /\ tb_ret'.res = "false") =>
            available_permits' = available_permits]_vars
    /\ [][\A t \in Threads :
            /\ (fw'[t] # fw[t] /\ fw[t].pc # "reset_window"
                    /\ ~(FwEvaluates(t) /\ fw_ret'.res = "true")) =>
                   UNCHANGED <<counter, window_start>>
            /\ (fw'[t] # fw[t] /\ fw[t].pc = "reset_window") =>
                   \/ UNCHANGED <<counter, window_start>>
                   \/ counter' = 0 /\ window_start' = clock]_vars
    /\ [](kind = "FixedWindow" /\ fw_ret.res = "false" /\ fw_ret.wrote =>
            expiry.resets >= 1)
    /\ [](kind = "SlidingWindowLog" /\ sw_ret.res = "false" =>
            /\ cache # sw_ret.before
            /\ Len(cache) > 0
            /\ cache[Len(cache)].id = next_id - 1
            /\ next_id >= sw_ret.p)

\* A Fixed Window call was rejected within its window, permits being taken.
C8_Witness ==
    /\ kind = "FixedWindow"
    /\ fw_ret.res = "false"
    /\ ~fw_ret.wrote
    /\ counter > 0

\* C9: of the start() calls made with no stop() in between, sequential or
\* concurrent, exactly one returns true and launches the periodic task.
C9_OneStartWins ==
    kind = "TokenBucket" => sched_hist.won <= 1

\* C10: after stop(), unless a later start() sets the flag again, every
\* background thread eventually leaves its loop: a thread that wakes and
\* reads the cleared flag exits; a thread that has left never runs again,
\* and with no thread left the action is not invoked.
C10_StopHaltsRefills ==
    /\ (sched_hist.stops > 0 /\ ~is_running) ~> (is_running \/ LiveTasks = {})
    /\ [][\A i \in DOMAIN tasks :
            (tasks[i].pc = "check" /\ ~is_running /\ tasks'[i] # tasks[i]) =>
                tasks'[i].pc = "done"]_vars
    /\ [][\A i \in DOMAIN tasks :
            tasks[i].pc \in {"done", "panicked"} => tasks'[i] = tasks[i]]_vars
    /\ [][LiveTasks = {} =>
            /\ available_permits' = available_permits
            /\ refilled' = refilled]_vars

\* stop() was called and the thread that was refilling has left its loop.
C10_Witness ==
    /\ sched_hist.stops > 0
    /\ ~is_running
    /\ refilled
    /\ LiveTasks = {}
    /\ \E i \in DOMAIN tasks : tasks[i].pc = "done"

\* A refill tick: a background thread runs the action.
RefillTick == \E i \in DOMAIN tasks : tasks[i].pc = "action" /\ tasks'[i].pc # "action"

\* C11: Token Bucket, started and not stopped: a refill tick sets
\* available_permits back to permit_num, whatever was consumed before, and a
\* try_acquire(permit_num) made after the tick with no other acquire in
\* between returns true.
C11_RefillRestoresQuota ==
    /\ [][RefillTick => (available_permits' = permit_num /\ ~permits_poisoned')]_vars
    /\ [][(tb_calls'.n # tb_calls.n /\ refill_fresh /\ tb_ret'.p = permit_num) =>
            tb_ret'.res = "true"]_vars

\* C12: Token Bucket: of the try_acquire calls made after start() returned and
\* before a full duration has passed, no two whose permits sum to more than
\* permit_num both return true, however the refill thread is scheduled.
C12_NoRefillWithinFirstDuration ==
    (kind = "TokenBucket" /\ burst.open /\ burst.ok = 2) => burst.sum <= permit_num

\* The step of a Sliding Window Log try_acquire call.
SwCalled == sw_calls' # sw_calls

\* C13: Sliding Window Log try_acquire(p): every call, admitted or not,
\* first records p new entries (the store keeps the newest, up to its
\* capacity) and then reads the live count; it returns true iff that count is
\* <= permit_num, so a rejected call has added its entries too.
C13_RecordsThenCounts ==
    [][SwCalled =>
        LET p == sw_ret'.p
            before == count(cache, clock)
            kept == Min(p, capacity)
        IN /\ next_id' = next_id + p
           /\ Len(cache') = Min(before + p, capacity)
           /\ kept >= 1
           /\ \A j \in 1 .. kept :
                 cache'[Len(cache') - kept + j] =
                     [id |-> next_id + p - kept + j - 1, at |-> clock]
           /\ sw_ret'.res = "true" <=> count(cache', clock) <= permit_num
           /\ sw_ret'.res = "false" <=> count(cache', clock) > permit_num]_vars

\* A call was rejected after an earlier call, and the store is full of the
\* entries recorded last.
C13_Witness ==
    /\ kind = "SlidingWindowLog"
    /\ sw_calls >= 2
    /\ sw_ret.res = "false"
    /\ Len(cache) = capacity
    /\ cache # sw_ret.before

\* C14: Sliding Window Log: after a try_acquire(permit_num) that returned
\* true, once the full duration has passed with no other call, a new
\* try_acquire(permit_num) returns true.
C14_AdmitsAgainAfterDuration ==
    [][(SwCalled /\ sw_ret.res = "true" /\ sw_ret.p = permit_num
            /\ sw_ret'.p = permit_num /\ Len(cache) > 0
            /\ clock - cache[Len(cache)].at >= duration) =>
          sw_ret'.res = "true"]_vars

\* The count call that directly follows the last store call.
CountFollowsStore == store_call.calls > 0 /\ count_ret.after = store_call.calls

\* C15 as stated: on an empty store, store(n, duration) followed at once by
\* count() returns exactly n; after more than the configured duration has
\* passed with no further insert, count() returns 0.
C15_CountAfterStore ==
    /\ (CountFollowsStore /\ store_call.empty /\ count_ret.at = store_call.at) =>
          count_ret.n = store_call.n
    /\ (CountFollowsStore /\ count_ret.at - store_call.at > ttl) =>
          count_ret.n = 0

\* C15 as amended: on an empty store, store(n, duration) with n no larger
\* than the capacity, followed at once by count(), returns exactly n; after
\* more than the configured duration has passed with no further insert,
\* count() returns 0.
C15_CountAfterStoreAmended ==
    /\ (CountFollowsStore /\ store_call.empty /\ count_ret.at = store_call.at
            /\ store_call.n <= capacity) =>
          count_ret.n = store_call.n
    /\ (CountFollowsStore /\ count_ret.at - store_call.at > ttl) =>
          count_ret.n = 0

\* The entries of an earlier store call expired and were counted as none; a
\* second store of several entries on the store, empty again, was counted at
\* once.
C15_Witness ==
    /\ CountFollowsStore
    /\ store_call.calls = 2
    /\ store_call.empty
    /\ store_call.at > 0
    /\ store_call.n >= 2
    /\ store_call.n <= capacity
    /\ count_ret.at = store_call.at
    /\ count_ret.n = store_call.n

\* C16: Log Store: every entry inserted by store(n, duration) stops being
\* counted exactly `duration` (the argument of that call) after its
\* insertion, whatever duration the store was built with.
C16_EntriesCarryGivenExpiration ==
    store_call.calls > 0 =>
        \A j \in 1 .. Len(cache) :
            cache[j].id >= next_id - store_call.n =>
                (Expired(cache[j], clock) <=> clock - cache[j].at >= store_call.d)

\* Thread t is about to lock l, and thread u holds it.
FwWaitsFor(t, u) ==
    \/ fw[t].pc \in {"check", "reset_window"} /\ locks.window_start = u
    \/ fw[t].pc \in {"reset", "evaluate"} /\ locks.counter = u

\* C17: Fixed Window: in no reachable state do two concurrent try_acquire
\* calls block each other on the counter and window_start locks, one holding
\* the lock the other waits for.
C17_NoLockCycle ==
    \A t, u \in Threads : t # u => ~(FwWaitsFor(t, u) /\ FwWaitsFor(u, t))

\* C18: start(); stop(); start() made one after the other on one Scheduler:
\* the thread of the first start() exits, so that a thread going into another
\* round of the loop is the only one in the loop, and in the end at most one
\* thread is left running the action.
C18_RestartLeavesOneTask ==
    /\ [][\A i \in DOMAIN tasks :
            (~sched_hist.overlap /\ tasks[i].pc = "check" /\ tasks'[i].pc = "action") =>
                LiveTasks = {i}]_vars
    /\ (~sched_hist.overlap /\ Len(tasks) >= 2) ~>
            (sched_hist.overlap \/ Cardinality(LiveTasks) <= 1)

\* C19: Log Store: count() never exceeds the capacity, and the entries that
\* survive are the most recently inserted ones: the live entries are the
\* last tokens handed out, in order, and right after store(n, ..) at least
\* min(n, capacity) entries are counted.
C19_CapacityBound ==
    LET live == Live(cache, clock)
    IN /\ count(cache, clock) <= capacity
       /\ Len(cache) <= capacity
       /\ \A j \in 1 .. Len(live) : live[j].id = next_id - Len(live) + j - 1
       /\ (store_call.calls > 0 /\ store_call.at = clock) =>
              count(cache, clock) >= Min(store_call.n, capacity)

\* A second store call found live entries and filled the store: the oldest
\* were evicted, some of the first call's entries are still there.
C19_Witness ==
    /\ store_call.calls = 2
    /\ ~store_call.empty
    /\ store_call.n < Len(cache)
    /\ Len(cache) = capacity
    /\ cache[1].id > 0
    /\ cache[1].at = store_call.at

\* The permits admitted at the times from..to.
RECURSIVE SumGranted(_, _)
SumGranted(from, to) ==
    IF from > to THEN 0 ELSE granted[from] + SumGranted(from + 1, to)

====
